---- MODULE Spec2Model ----
(***************************************************************************)
(* vue-tsc-plus: the write interceptor of src/index.ts.                    *)
(*                                                                         *)
(* Strings are sequences of one-character strings, so that slice,          *)
(* startsWith, endsWith and concatenation act on characters as they do in  *)
(* the source.  node:path is the POSIX implementation.                     *)
(***************************************************************************)
EXTENDS Integers, Sequences, FiniteSets, TLC

\* ------------------------------------------------------------------------
\* Bounds of the model
\* ------------------------------------------------------------------------

\* descriptors the operating system can have open at once
MaxFds == 2

\* wrapped fs calls the checker issues in one run
MaxCalls == 4

\* ------------------------------------------------------------------------
\* JavaScript string primitives
\* ------------------------------------------------------------------------

\* String.prototype.slice(0, -n)
SliceEnd(s, n) == IF Len(s) <= n THEN <<>> ELSE SubSeq(s, 1, Len(s) - n)

\* String.prototype.startsWith
startsWith(s, prefix) ==
    /\ Len(prefix) <= Len(s)
    /\ SubSeq(s, 1, Len(prefix)) = prefix

\* String.prototype.endsWith
endsWith(s, suffix) ==
    /\ Len(suffix) <= Len(s)
    /\ SubSeq(s, Len(s) - Len(suffix) + 1, Len(s)) = suffix

\* ------------------------------------------------------------------------
\* node:path (posix)
\* ------------------------------------------------------------------------

SEP == "/"

isAbsolute(p) == Len(p) > 0 /\ p[1] = SEP

\* the segments of p between separators, empty segments dropped
RECURSIVE SplitFrom(_, _, _)
SplitFrom(p, i, cur) ==
    IF i > Len(p)
    THEN IF cur = <<>> THEN <<>> ELSE <<cur>>
    ELSE IF p[i] = SEP
         THEN (IF cur = <<>> THEN <<>> ELSE <<cur>>) \o SplitFrom(p, i + 1, <<>>)
         ELSE SplitFrom(p, i + 1, Append(cur, p[i]))

Split(p) == SplitFrom(p, 1, <<>>)

RECURSIVE JoinSegs(_)
JoinSegs(segs) ==
    IF segs = <<>> THEN <<>>
    ELSE IF Len(segs) = 1 THEN segs[1]
    ELSE segs[1] \o <<SEP>> \o JoinSegs(Tail(segs))

DOT == <<".">>
DOTDOT == <<".", ".">>

\* normalizeString: resolves "." and ".." segments
RECURSIVE normalizeSegs(_, _, _)
normalizeSegs(segs, acc, allowAboveRoot) ==
    IF segs = <<>> THEN acc
    ELSE LET s == Head(segs)
             rest == Tail(segs)
         IN  IF s = DOT THEN normalizeSegs(rest, acc, allowAboveRoot)
             ELSE IF s = DOTDOT
             THEN IF acc # <<>> /\ acc[Len(acc)] # DOTDOT
                  THEN normalizeSegs(rest, SubSeq(acc, 1, Len(acc) - 1), allowAboveRoot)
                  ELSE IF allowAboveRoot
                       THEN normalizeSegs(rest, Append(acc, DOTDOT), allowAboveRoot)
                       ELSE normalizeSegs(rest, acc, allowAboveRoot)
             ELSE normalizeSegs(rest, Append(acc, s), allowAboveRoot)

\* path.normalize
normalize(p) ==
    IF p = <<>> THEN DOT
    ELSE LET abs == isAbsolute(p)
             trailing == p[Len(p)] = SEP
             body == JoinSegs(normalizeSegs(Split(p), <<>>, ~abs))
         IN  IF body = <<>>
             THEN IF abs THEN <<SEP>> ELSE IF trailing THEN <<".", SEP>> ELSE DOT
             ELSE (IF abs THEN <<SEP>> ELSE <<>>) \o body
                  \o (IF trailing THEN <<SEP>> ELSE <<>>)

\* path.join(a, b)
join(a, b) ==
    IF a = <<>> /\ b = <<>> THEN DOT
    ELSE IF a = <<>> THEN normalize(b)
    ELSE IF b = <<>> THEN normalize(a)
    ELSE normalize(a \o <<SEP>> \o b)

\* path.resolve(a, b) for an absolute a: the process's working directory is
\* never consulted
resolve(a, b) ==
    LET joined == IF isAbsolute(b) THEN b
                  ELSE IF b = <<>> THEN a
                  ELSE a \o <<SEP>> \o b
    IN  <<SEP>> \o JoinSegs(normalizeSegs(Split(joined), <<>>, FALSE))

\* path.dirname: the index `end` found by the backwards scan, 0 when none
RECURSIVE dirnameEnd(_, _, _)
dirnameEnd(p, i, matchedSlash) ==
    IF i < 2 THEN 0
    ELSE IF p[i] = SEP
         THEN IF ~matchedSlash THEN i ELSE dirnameEnd(p, i - 1, matchedSlash)
         ELSE dirnameEnd(p, i - 1, FALSE)

dirname(p) ==
    IF p = <<>> THEN DOT
    ELSE LET hasRoot == p[1] = SEP
             end == dirnameEnd(p, Len(p), TRUE)
         IN  IF end = 0 THEN (IF hasRoot THEN <<SEP>> ELSE DOT)
             ELSE IF hasRoot /\ end = 2 THEN <<SEP, SEP>>
             ELSE SubSeq(p, 1, end - 1)

\* path.basename
basename(p) ==
    LET segs == Split(p)
    IN  IF segs = <<>> THEN <<>> ELSE segs[Len(segs)]

\* length of the longest common prefix of two segment lists
RECURSIVE commonLen(_, _)
commonLen(a, b) ==
    IF a = <<>> \/ b = <<>> THEN 0
    ELSE IF Head(a) = Head(b) THEN 1 + commonLen(Tail(a), Tail(b))
    ELSE 0

\* path.relative(from, to), both absolute
relative(from, to) ==
    LET f == Split(resolve(from, <<>>))
        t == Split(resolve(to, <<>>))
        c == commonLen(f, t)
        ups == [i \in 1..(Len(f) - c) |-> DOTDOT]
    IN  JoinSegs(ups \o SubSeq(t, c + 1, Len(t)))

\* ------------------------------------------------------------------------
\* The file system the run starts from
\* ------------------------------------------------------------------------

JS == <<".", "j", "s">>
VUE == <<".", "v", "u", "e">>
VUEJS == VUE \o JS
MAP == <<".", "m", "a", "p">>
TSCONFIG_JSON == <<"t", "s", "c", "o", "n", "f", "i", "g", ".", "j", "s", "o", "n">>

\* the project directory and the files the checker emits
ProjectDir == <<"/", "p">>
OutNested == <<"/", "p", "/", "d", "/", "a", "/", "F">> \o VUEJS
OutSibling == <<"/", "p", "/", "d", "2", "/", "F">> \o VUEJS
OutPlainJs == <<"/", "p", "/", "d", "/", "x">> \o JS

OpenPaths == {OutNested, OutSibling, OutPlainJs}

\* the component sources on disk: the component F.vue of directory a, in
\* every place a configuration of TsconfigContents may root it.  No source
\* exists for the output in /p/d2.
Sources ==
    { <<"/", "p", "/", "s", "/", "a", "/", "F">> \o VUE,
      <<"/", "p", "/", "a", "/", "F">> \o VUE,
      <<"/", "p", "/", "d", "/", "a", "/", "F">> \o VUE,
      <<"/", "p", "/", "s", "/", "d", "/", "a", "/", "F">> \o VUE }

VueCode == <<"<template/>">>

\* a tsconfig.json as JSON.parse sees it: text that does not parse (or a
\* file that cannot be read), or an object with these compilerOptions
\* (<<>> for an option that is not set, the option's JSON literal for
\* sourceMap)
Garbage == [parses |-> FALSE, outDir |-> <<>>, rootDir |-> <<>>, sourceMap |-> "undefined"]

Options(outDir, rootDir, sourceMap) ==
    [parses |-> TRUE, outDir |-> outDir, rootDir |-> rootDir, sourceMap |-> sourceMap]

TsconfigContents ==
    { Garbage,
      Options(<<"d">>, <<".", "/", "s">>, "true"),
      Options(<<"d">>, <<".", "/", "s">>, "false"),
      Options(<<"d">>, <<>>, "\"true\""),
      Options(<<>>, <<".", "/", "s">>, "undefined") }

ProjectTsconfig == join(ProjectDir, TSCONFIG_JSON)

\* Map objects are functions whose domain is the set of keys
EmptyMap == [k \in {} |-> <<>>]

MapSet(m, k, v) == [x \in DOMAIN m \cup {k} |-> IF x = k THEN v ELSE m[x]]

MapDelete(m, k) == [x \in DOMAIN m \ {k} |-> m[x]]

\* ------------------------------------------------------------------------
\* State
\* ------------------------------------------------------------------------

VARIABLES
    fdToPath,       \* Map<number, string>: descriptor -> path it was opened with
    tsconfigCache,  \* Map<string, {outDir, rootDir, sourceMap}>
    osFds,          \* the operating system's descriptor table
    disk,           \* path -> content of every file but the tsconfig.json files
    tsconfigs,      \* path -> content of the tsconfig.json files
    pc,             \* position inside the wrapped write, "idle" between calls
    fr,             \* the locals of the wrapped call in progress (or last made)
    calls,          \* the native fs calls made by that call, in order
    compiles,       \* the options of the compileVueSFC calls made by that call
    reads,          \* the tsconfig.json files read and parsed by that call
    ret,            \* how that call ended
    history,        \* per descriptor, what the wrapped open and close did last
    pre,            \* the descriptor table and the disk when that call began
    nCalls,         \* wrapped calls issued so far
    nFaults         \* native calls that failed for a reason outside the model

vars == <<fdToPath, tsconfigCache, osFds, disk, tsconfigs, pc, fr, calls,
          compiles, reads, ret, history, pre, nCalls, nFaults>>

\* native calls allowed to fail for a reason outside the model (I/O error,
\* permissions, missing directory) in one run
MaxFaults == 1

Fds == 1..MaxFds

\* ------------------------------------------------------------------------
\* Config resolver (index.ts 13-56, 80-83)
\* ------------------------------------------------------------------------

\* fs.existsSync
existsSync(p, diskv, tsv) == p \in DOMAIN diskv \/ p \in DOMAIN tsv

RECURSIVE findTsConfigFrom(_, _, _)
findTsConfigFrom(dir, diskv, tsv) ==
    IF dir = dirname(dir) THEN <<>>
    ELSE LET tsconfigPath == join(dir, TSCONFIG_JSON)
         IN  IF existsSync(tsconfigPath, diskv, tsv) THEN tsconfigPath
             ELSE findTsConfigFrom(dirname(dir), diskv, tsv)

\* <<>> stands for null
findTsConfig(filePath, diskv, tsv) == findTsConfigFrom(dirname(filePath), diskv, tsv)

NullPaths == [isNull |-> TRUE, outDir |-> <<>>, rootDir |-> <<>>, sourceMap |-> FALSE]

\* what getTsConfigPaths hands back: the value returned, the cache
\* afterwards and the files read and parsed
Looked(val, cache, read) == [val |-> val, cache |-> cache, reads |-> read]

getTsConfigPathsStoreMutNoCache(tsconfigPath, cache, result) ==
    Looked(result, cache, <<tsconfigPath>>)

\* lines 49-51
getTsConfigPathsStore(tsconfigPath, cache, result) ==
    Looked(result, MapSet(cache, tsconfigPath, result), <<tsconfigPath>>)

getTsConfigPathsParseMutTruthy(projectRoot, compilerOptions) ==
    [isNull |-> FALSE,
     outDir |-> IF compilerOptions.outDir # <<>>
                THEN resolve(projectRoot, compilerOptions.outDir)
                ELSE projectRoot,
     rootDir |-> IF compilerOptions.rootDir # <<>>
                 THEN resolve(projectRoot, compilerOptions.rootDir)
                 ELSE projectRoot,
     sourceMap |-> compilerOptions.sourceMap \in {"true", "\"true\""}]

\* lines 38-48
getTsConfigPathsParse(projectRoot, compilerOptions) ==
    [isNull |-> FALSE,
     outDir |-> IF compilerOptions.outDir # <<>>
                THEN resolve(projectRoot, compilerOptions.outDir)
                ELSE projectRoot,
     rootDir |-> IF compilerOptions.rootDir # <<>>
                 THEN resolve(projectRoot, compilerOptions.rootDir)
                 ELSE projectRoot,
     sourceMap |-> compilerOptions.sourceMap = "true"]

\* lines 27-55, for the tsconfigPath found on line 26
getTsConfigPathsAt(tsconfigPath, cache, tsv) ==
    IF tsconfigPath = <<>>
    THEN Looked(NullPaths, cache, <<>>)
    ELSE IF tsconfigPath \in DOMAIN cache
    THEN Looked(cache[tsconfigPath], cache, <<>>)
    ELSE IF tsconfigPath \notin DOMAIN tsv \/ ~tsv[tsconfigPath].parses
    THEN Looked(NullPaths, cache, <<tsconfigPath>>)
    ELSE getTsConfigPathsStore(tsconfigPath, cache,
             getTsConfigPathsParse(dirname(tsconfigPath), tsv[tsconfigPath]))

getTsConfigPaths(filePath, cache, diskv, tsv) ==
    getTsConfigPathsAt(findTsConfig(filePath, diskv, tsv), cache, tsv)

\* ------------------------------------------------------------------------
\* Path mapper (index.ts 58-78)
\* ------------------------------------------------------------------------

\* characters resolveVueFilePath removes from the end of the path
JsExtLen == 3

resolveVueFilePathWithMutRoot(jsFilePath, paths) ==
    IF paths.isNull
    THEN SliceEnd(jsFilePath, JsExtLen)
    ELSE IF ~startsWith(jsFilePath, paths.outDir)
    THEN SliceEnd(jsFilePath, JsExtLen)
    ELSE SliceEnd(join(paths.outDir, relative(paths.outDir, jsFilePath)), JsExtLen)

resolveVueFilePathWithMutKeepExt(jsFilePath, paths) ==
    IF paths.isNull
    THEN jsFilePath
    ELSE IF ~startsWith(jsFilePath, paths.outDir)
    THEN SliceEnd(jsFilePath, JsExtLen)
    ELSE SliceEnd(join(paths.rootDir, relative(paths.outDir, jsFilePath)), JsExtLen)

\* lines 60-77, given what getTsConfigPaths returned on line 59
resolveVueFilePathWith(jsFilePath, paths) ==
    IF paths.isNull
    THEN SliceEnd(jsFilePath, JsExtLen)
    ELSE IF ~startsWith(jsFilePath, paths.outDir)
    THEN SliceEnd(jsFilePath, JsExtLen)
    ELSE LET relativePath == relative(paths.outDir, jsFilePath)
         IN  SliceEnd(join(paths.rootDir, relativePath), JsExtLen)

\* line 59 and the rest
resolveVueFilePathOf(jsFilePath, r) ==
    Looked(resolveVueFilePathWith(jsFilePath, r.val), r.cache, r.reads)

resolveVueFilePath(jsFilePath, cache, diskv, tsv) ==
    resolveVueFilePathOf(jsFilePath, getTsConfigPaths(jsFilePath, cache, diskv, tsv))

\* line 82, given what getTsConfigPaths returned on line 81
shouldGenerateSourceMapOf(r) ==
    Looked(IF r.val.isNull THEN TRUE ELSE r.val.sourceMap, r.cache, r.reads)

shouldGenerateSourceMap(jsFilePath, cache, diskv, tsv) ==
    shouldGenerateSourceMapOf(getTsConfigPaths(jsFilePath, cache, diskv, tsv))

\* ------------------------------------------------------------------------
\* The real (unwrapped) fs operations
\* ------------------------------------------------------------------------

ClosedFd == [open |-> FALSE, path |-> <<>>, pos |-> 0]

\* thrown == TRUE: the call raised and changed nothing
Raised(osv, diskv) == [thrown |-> TRUE, val |-> 0, os |-> osv, disk |-> diskv]

\* open(path, 'w'): the lowest free descriptor; the file is created or
\* truncated.  Fails when no descriptor is free, or when fault says so.
nativeOpenSync(osv, diskv, path, fault) ==
    LET free == { f \in Fds : ~osv[f].open }
    IN  IF fault \/ free = {} THEN Raised(osv, diskv)
        ELSE LET fd == CHOOSE f \in free : \A g \in free : f <= g
             IN  [thrown |-> FALSE, val |-> fd,
                  os |-> [osv EXCEPT ![fd] = [open |-> TRUE, path |-> path, pos |-> 0]],
                  disk |-> MapSet(diskv, path, <<>>)]

\* the content after writing text at offset at; a gap past the end of the
\* file reads as zero bytes
WriteAt(content, at, text) ==
    LET hole == [i \in 1..(at - Len(content)) |-> "\\0"]
        before == IF at <= Len(content) THEN SubSeq(content, 1, at)
                  ELSE content \o hole
    IN  before \o text \o SubSeq(content, at + Len(text) + 1, Len(content))

\* write(fd, data, position?): args is the whole argument list.  Without a
\* position the text goes to the descriptor's offset, which advances.
\* The value is the number of characters written.
nativeWriteSync(osv, diskv, args, fault) ==
    LET fd == args[1]
        text == args[2].val
    IN  IF fault \/ fd \notin Fds \/ ~osv[fd].open THEN Raised(osv, diskv)
        ELSE LET path == osv[fd].path
                 positioned == Len(args) >= 3
                 at == IF positioned THEN args[3] ELSE osv[fd].pos
                 old == IF path \in DOMAIN diskv THEN diskv[path] ELSE <<>>
             IN  [thrown |-> FALSE, val |-> Len(text),
                  os |-> IF positioned THEN osv
                         ELSE [osv EXCEPT ![fd].pos = at + Len(text)],
                  disk |-> MapSet(diskv, path, WriteAt(old, at, text))]

\* close(fd): the descriptor is released even when the call reports an error
nativeCloseSync(osv, diskv, fd, fault) ==
    IF fd \notin Fds \/ ~osv[fd].open THEN Raised(osv, diskv)
    ELSE [thrown |-> fault, val |-> 0,
          os |-> [osv EXCEPT ![fd] = ClosedFd], disk |-> diskv]

\* an entry of calls
Call(op, args, r) == [op |-> op, args |-> args, thrown |-> r.thrown, val |-> r.val]

\* a native call may fail for an outside reason while faults remain
MayFail(fault) == fault => nFaults < MaxFaults

Charge(fault) == nFaults' = IF fault THEN nFaults + 1 ELSE nFaults

\* ------------------------------------------------------------------------
\* The component compiler (vue-simple-compiler), a black box
\* ------------------------------------------------------------------------

NoSourceMap == [present |-> FALSE, id |-> "none"]
SourceMapOf(id) == [present |-> TRUE, id |-> id]

\* JSON.stringify of a source map object
JSONstringify(m) == <<"{\"version\":3,\"file\":\"", m.id, "\"}">>

String(text) == [type |-> "string", val |-> text]
Buffer(bytes) == [type |-> "buffer", val |-> bytes]

CssF == [filename |-> <<"F", ".", "c", "s", "s">>, code |-> <<".f{}">>,
         sourceMap |-> SourceMapOf("F.css")]
CssG == [filename |-> <<"c", "/", "G", ".", "c", "s", "s">>, code |-> <<".g{}">>,
         sourceMap |-> NoSourceMap]

JsCode == <<"export default {}">>

CompilerResults ==
    { [errors |-> 1, js |-> [code |-> JsCode, sourceMap |-> SourceMapOf("js")],
       css |-> <<CssF>>],
      [errors |-> 0, js |-> [code |-> JsCode, sourceMap |-> NoSourceMap],
       css |-> <<>>],
      [errors |-> 0, js |-> [code |-> JsCode, sourceMap |-> SourceMapOf("js")],
       css |-> <<CssF, CssG>>] }

NoResult == [errors |-> 0, js |-> [code |-> <<>>, sourceMap |-> NoSourceMap], css |-> <<>>]

\* ------------------------------------------------------------------------
\* Initial state
\* ------------------------------------------------------------------------

\* history of a descriptor: the argument of its latest wrapped open, whether
\* a wrapped close came after it, and whether an earlier wrapped open of the
\* same descriptor named another path
NoPathArg == [type |-> "none", val |-> <<>>]
NeverOpened == [path |-> NoPathArg, closed |-> TRUE, reused |-> FALSE]

Opened(h, filePath) ==
    [path |-> filePath, closed |-> FALSE,
     reused |-> h.path.type # "none" /\ h.path.val # filePath.val]

Closed(h) == [h EXCEPT !.closed = TRUE]

NoFrame ==
    [op |-> "none", args |-> <<>>, hasPath |-> FALSE, filePath |-> <<>>,
     vueFilePath |-> <<>>, vueCode |-> <<>>, sourceMap |-> FALSE,
     result |-> NoResult, jsCode |-> <<>>, i |-> 1, cssPath |-> <<>>,
     cssCode |-> <<>>, fd |-> 0]

NoRet == [kind |-> "none", val |-> 0]

\* the project has no tsconfig.json, or one with any of the modelled contents
Init ==
    /\ fdToPath = EmptyMap
    /\ tsconfigCache = EmptyMap
    /\ osFds = [f \in Fds |-> ClosedFd]
    /\ disk = [p \in Sources |-> VueCode]
    /\ tsconfigs \in {EmptyMap} \cup
                     { [p \in {ProjectTsconfig} |-> c] : c \in TsconfigContents }
    /\ pc = "idle"
    /\ fr = NoFrame
    /\ calls = <<>>
    /\ compiles = <<>>
    /\ reads = <<>>
    /\ ret = NoRet
    /\ history = [f \in Fds |-> NeverOpened]
    /\ pre = [os |-> [f \in Fds |-> ClosedFd], disk |-> [p \in Sources |-> VueCode]]
    /\ nCalls = 0
    /\ nFaults = 0

\* ------------------------------------------------------------------------
\* fs.openSync and fs.closeSync (index.ts 85-100)
\* ------------------------------------------------------------------------

Returned(r) == [kind |-> IF r.thrown THEN "throw" ELSE "return", val |-> r.val]

openSyncRecordMutAnyType(table, fd, filePath) == MapSet(table, fd, filePath.val)

\* the table after line 89-91
openSyncRecord(table, fd, filePath) ==
    IF filePath.type = "string" THEN MapSet(table, fd, filePath.val) ELSE table

\* the table after line 98
closeSyncForgetMutKeep(table, fd) == table

closeSyncForget(table, fd) == MapDelete(table, fd)

\* the checker makes its next call once the last one has ended
Entering ==
    /\ pc = "idle"
    /\ nCalls < MaxCalls
    /\ nCalls' = nCalls + 1
    /\ compiles' = <<>>
    /\ pre' = [os |-> osFds, disk |-> disk]

openSync(filePath, fault) ==
    LET args == <<filePath, "w">>
        r == nativeOpenSync(osFds, disk, filePath.val, fault)
    IN  /\ Entering
        /\ MayFail(fault) /\ Charge(fault)
        /\ fr' = [NoFrame EXCEPT !.op = "open", !.args = args]
        /\ reads' = <<>>
        /\ osFds' = r.os
        /\ disk' = r.disk
        /\ calls' = <<Call("open", args, r)>>
        /\ fdToPath' = IF r.thrown THEN fdToPath
                       ELSE openSyncRecord(fdToPath, r.val, filePath)
        /\ history' = IF r.thrown THEN history
                      ELSE [history EXCEPT ![r.val] = Opened(@, filePath)]
        /\ ret' = Returned(r)
        /\ pc' = "idle"
        /\ UNCHANGED <<tsconfigCache, tsconfigs>>

closeSync(fd, fault) ==
    LET args == <<fd>>
        r == nativeCloseSync(osFds, disk, fd, fault)
    IN  /\ Entering
        /\ MayFail(fault) /\ Charge(fault)
        /\ fr' = [NoFrame EXCEPT !.op = "close", !.args = args]
        /\ reads' = <<>>
        /\ fdToPath' = closeSyncForget(fdToPath, fd)
        /\ osFds' = r.os
        /\ disk' = r.disk
        /\ calls' = <<Call("close", args, r)>>
        /\ ret' = Returned(r)
        /\ pc' = "idle"
        /\ history' = [history EXCEPT ![fd] = Closed(@)]
        /\ UNCHANGED <<tsconfigCache, tsconfigs>>

\* ------------------------------------------------------------------------
\* fs.writeSync (index.ts 102-198), one action per step
\* ------------------------------------------------------------------------

isVueJsWriteMutAnyData(hasPath, filePath, data) ==
    hasPath /\ filePath # <<>> /\ endsWith(filePath, VUEJS)

\* line 110
isVueJsWrite(hasPath, filePath, data) ==
    hasPath /\ filePath # <<>> /\ endsWith(filePath, VUEJS) /\ data.type = "string"

\* lines 113-118, v being what resolveVueFilePath handed back
writeSyncResolved(args, filePath, v) ==
    /\ tsconfigCache' = v.cache
    /\ reads' = v.reads
    /\ fr' = [NoFrame EXCEPT !.op = "write", !.args = args, !.hasPath = TRUE,
                             !.filePath = filePath, !.vueFilePath = v.val]
    /\ pc' = IF v.val = <<>> THEN "final" ELSE "exists"

\* lines 107-118, for the arguments args
writeSyncLookup(args, hasPath, filePath) ==
    IF isVueJsWrite(hasPath, filePath, args[2])
    THEN writeSyncResolved(args, filePath,
             resolveVueFilePath(filePath, tsconfigCache, disk, tsconfigs))
    ELSE /\ fr' = [NoFrame EXCEPT !.op = "write", !.args = args,
                                  !.hasPath = hasPath, !.filePath = filePath]
         /\ reads' = <<>>
         /\ pc' = "final"
         /\ UNCHANGED tsconfigCache

\* lines 103-118: the table lookup, the placeholder test, the path mapping
writeSyncEnter(fd, data, rest) ==
    /\ Entering
    /\ calls' = <<>>
    /\ ret' = NoRet
    /\ writeSyncLookup(<<fd, data>> \o rest, fd \in DOMAIN fdToPath,
                       IF fd \in DOMAIN fdToPath THEN fdToPath[fd] ELSE <<>>)
    /\ UNCHANGED <<fdToPath, osFds, disk, tsconfigs, history, nFaults>>

\* what every later step of the write leaves alone
WriteFrame == UNCHANGED <<fdToPath, tsconfigs, history, pre, nCalls, ret>>

\* a native call inside the try block: on an exception control moves to the
\* catch clause
Native(op, args, r, next) ==
    /\ osFds' = r.os
    /\ disk' = r.disk
    /\ calls' = Append(calls, Call(op, args, r))
    /\ pc' = IF r.thrown THEN "catch" ELSE next

writeSyncExistsMutCompile ==
    /\ pc = "exists"
    /\ pc' = IF existsSync(fr.vueFilePath, disk, tsconfigs) THEN "read" ELSE "compile"
    /\ WriteFrame
    /\ UNCHANGED <<tsconfigCache, osFds, disk, fr, calls, compiles, reads, nFaults>>

\* line 121
writeSyncExists ==
    /\ pc = "exists"
    /\ pc' = IF existsSync(fr.vueFilePath, disk, tsconfigs) THEN "read" ELSE "final"
    /\ WriteFrame
    /\ UNCHANGED <<tsconfigCache, osFds, disk, fr, calls, compiles, reads, nFaults>>

\* lines 122-125, sm being what shouldGenerateSourceMap handed back
writeSyncReadDone(sm) ==
    /\ fr' = [fr EXCEPT !.vueCode = disk[fr.vueFilePath], !.sourceMap = sm.val]
    /\ tsconfigCache' = sm.cache
    /\ reads' = reads \o sm.reads
    /\ pc' = "compile"

\* lines 122-125
writeSyncRead(fault) ==
    /\ pc = "read"
    /\ MayFail(fault) /\ Charge(fault)
    /\ IF fault \/ fr.vueFilePath \notin DOMAIN disk
       THEN /\ pc' = "catch"
            /\ UNCHANGED <<fr, tsconfigCache, reads>>
       ELSE writeSyncReadDone(
                shouldGenerateSourceMap(fr.filePath, tsconfigCache, disk, tsconfigs))
    /\ WriteFrame
    /\ UNCHANGED <<osFds, disk, calls, compiles>>

\* the options of line 128-141 that depend on the write
CompileOptions ==
    [code |-> fr.vueCode, root |-> dirname(fr.vueFilePath),
     filename |-> basename(fr.vueFilePath), sourceMap |-> fr.sourceMap]

SourceMappingURL == "\n//# sourceMappingURL="
CssSourceMappingURL == "\n/*# sourceMappingURL="
CommentEnd == " */"

hasErrorsMutNever(result) == FALSE

hasErrorsMutOffByOne(result) == result.errors > 1

\* line 143
hasErrors(result) == result.errors > 0

wantsMapMutIgnoreFlag(sourceMap, map) == map.present

wantsMapMutNever(sourceMap, map) == FALSE

\* lines 155 and 170
wantsMap(sourceMap, map) == sourceMap /\ map.present

cssPathOfMutCwd(filePath, filename) == resolve(ProjectDir, filename)

\* line 167
cssPathOf(filePath, filename) == resolve(dirname(filePath), filename)

\* lines 128-156: the compiler returns result, or raises
writeSyncCompile(result, raises) ==
    /\ pc = "compile"
    /\ compiles' = Append(compiles, CompileOptions)
    /\ IF raises
       THEN /\ pc' = "catch"
            /\ UNCHANGED fr
       ELSE IF hasErrors(result)
       THEN /\ pc' = "errwrite"
            /\ fr' = [fr EXCEPT !.result = result]
       ELSE LET jsFileName == basename(fr.filePath)
                withMap == wantsMap(fr.sourceMap, result.js.sourceMap)
                jsCode == IF withMap
                          THEN result.js.code \o <<SourceMappingURL>>
                                   \o jsFileName \o MAP
                          ELSE result.js.code
            IN  /\ fr' = [fr EXCEPT !.result = result, !.jsCode = jsCode, !.i = 1]
                /\ pc' = IF withMap THEN "mapopen" ELSE "css"
    /\ WriteFrame
    /\ UNCHANGED <<tsconfigCache, osFds, disk, calls, reads, nFaults>>

\* line 149
writeSyncErrors(fault) ==
    LET r == nativeWriteSync(osFds, disk, fr.args, fault)
    IN  /\ pc = "errwrite"
        /\ MayFail(fault) /\ Charge(fault)
        /\ Native("write", fr.args, r, "idle")
        /\ ret' = IF r.thrown THEN ret ELSE Returned(r)
        /\ UNCHANGED <<fdToPath, tsconfigs, history, pre, nCalls>>
        /\ UNCHANGED <<tsconfigCache, fr, compiles, reads>>

\* line 159-160
writeSyncMapOpen(fault) ==
    LET mapPath == fr.filePath \o MAP
        r == nativeOpenSync(osFds, disk, mapPath, fault)
    IN  /\ pc = "mapopen"
        /\ MayFail(fault) /\ Charge(fault)
        /\ Native("open", <<String(mapPath), "w">>, r, "mapwrite")
        /\ fr' = [fr EXCEPT !.fd = r.val]
        /\ WriteFrame
        /\ UNCHANGED <<tsconfigCache, compiles, reads>>

\* line 161
writeSyncMapWrite(fault) ==
    LET args == <<fr.fd, String(JSONstringify(fr.result.js.sourceMap))>>
        r == nativeWriteSync(osFds, disk, args, fault)
    IN  /\ pc = "mapwrite"
        /\ MayFail(fault) /\ Charge(fault)
        /\ Native("write", args, r, "mapclose")
        /\ WriteFrame
        /\ UNCHANGED <<tsconfigCache, fr, compiles, reads>>

\* line 162
writeSyncMapClose(fault) ==
    LET r == nativeCloseSync(osFds, disk, fr.fd, fault)
    IN  /\ pc = "mapclose"
        /\ MayFail(fault) /\ Charge(fault)
        /\ Native("close", <<fr.fd>>, r, "css")
        /\ WriteFrame
        /\ UNCHANGED <<tsconfigCache, fr, compiles, reads>>

\* lines 166-171: the loop head and the style's path and text
writeSyncCss ==
    /\ pc = "css"
    /\ IF fr.i > Len(fr.result.css)
       THEN /\ pc' = "modwrite"
            /\ UNCHANGED fr
       ELSE LET cssFile == fr.result.css[fr.i]
                cssPath == cssPathOf(fr.filePath, cssFile.filename)
                cssFileName == basename(cssPath)
                withMap == wantsMap(fr.sourceMap, cssFile.sourceMap)
                cssCode == IF withMap
                           THEN cssFile.code \o <<CssSourceMappingURL>>
                                    \o cssFileName \o MAP \o <<CommentEnd>>
                           ELSE cssFile.code
            IN  /\ fr' = [fr EXCEPT !.cssPath = cssPath, !.cssCode = cssCode]
                /\ pc' = IF withMap THEN "cssmapopen" ELSE "cssopen"
    /\ WriteFrame
    /\ UNCHANGED <<tsconfigCache, osFds, disk, calls, compiles, reads, nFaults>>

\* lines 173-174
writeSyncCssMapOpen(fault) ==
    LET cssMapPath == fr.cssPath \o MAP
        r == nativeOpenSync(osFds, disk, cssMapPath, fault)
    IN  /\ pc = "cssmapopen"
        /\ MayFail(fault) /\ Charge(fault)
        /\ Native("open", <<String(cssMapPath), "w">>, r, "cssmapwrite")
        /\ fr' = [fr EXCEPT !.fd = r.val]
        /\ WriteFrame
        /\ UNCHANGED <<tsconfigCache, compiles, reads>>

\* line 175
writeSyncCssMapWrite(fault) ==
    LET args == <<fr.fd, String(JSONstringify(fr.result.css[fr.i].sourceMap))>>
        r == nativeWriteSync(osFds, disk, args, fault)
    IN  /\ pc = "cssmapwrite"
        /\ MayFail(fault) /\ Charge(fault)
        /\ Native("write", args, r, "cssmapclose")
        /\ WriteFrame
        /\ UNCHANGED <<tsconfigCache, fr, compiles, reads>>

\* line 176
writeSyncCssMapClose(fault) ==
    LET r == nativeCloseSync(osFds, disk, fr.fd, fault)
    IN  /\ pc = "cssmapclose"
        /\ MayFail(fault) /\ Charge(fault)
        /\ Native("close", <<fr.fd>>, r, "cssopen")
        /\ WriteFrame
        /\ UNCHANGED <<tsconfigCache, fr, compiles, reads>>

writeSyncCssOpenMutWrapped(fault) ==
    LET r == nativeOpenSync(osFds, disk, fr.cssPath, fault)
    IN  /\ pc = "cssopen"
        /\ MayFail(fault) /\ Charge(fault)
        /\ Native("open", <<String(fr.cssPath), "w">>, r, "csswrite")
        /\ fr' = [fr EXCEPT !.fd = r.val]
        /\ fdToPath' = IF r.thrown THEN fdToPath
                       ELSE openSyncRecord(fdToPath, r.val, String(fr.cssPath))
        /\ UNCHANGED <<tsconfigs, history, pre, nCalls, ret>>
        /\ UNCHANGED <<tsconfigCache, compiles, reads>>

\* line 178
writeSyncCssOpen(fault) ==
    LET r == nativeOpenSync(osFds, disk, fr.cssPath, fault)
    IN  /\ pc = "cssopen"
        /\ MayFail(fault) /\ Charge(fault)
        /\ Native("open", <<String(fr.cssPath), "w">>, r, "csswrite")
        /\ fr' = [fr EXCEPT !.fd = r.val]
        /\ WriteFrame
        /\ UNCHANGED <<tsconfigCache, compiles, reads>>

\* line 179
writeSyncCssWrite(fault) ==
    LET args == <<fr.fd, String(fr.cssCode)>>
        r == nativeWriteSync(osFds, disk, args, fault)
    IN  /\ pc = "csswrite"
        /\ MayFail(fault) /\ Charge(fault)
        /\ Native("write", args, r, "cssclose")
        /\ WriteFrame
        /\ UNCHANGED <<tsconfigCache, fr, compiles, reads>>

\* line 180, and on to the next style
writeSyncCssClose(fault) ==
    LET r == nativeCloseSync(osFds, disk, fr.fd, fault)
    IN  /\ pc = "cssclose"
        /\ MayFail(fault) /\ Charge(fault)
        /\ Native("close", <<fr.fd>>, r, "css")
        /\ fr' = [fr EXCEPT !.i = IF r.thrown THEN @ ELSE @ + 1]
        /\ WriteFrame
        /\ UNCHANGED <<tsconfigCache, compiles, reads>>

modifiedArgsMutDropRest(args, jsCode) == <<args[1], String(jsCode)>>

\* line 184: [fd, jsCode, ...args.slice(2)]
modifiedArgs(args, jsCode) ==
    <<args[1], String(jsCode)>> \o SubSeq(args, 3, Len(args))

\* line 185, inside the try block
writeSyncModified(fault) ==
    LET args == modifiedArgs(fr.args, fr.jsCode)
        r == nativeWriteSync(osFds, disk, args, fault)
    IN  /\ pc = "modwrite"
        /\ MayFail(fault) /\ Charge(fault)
        /\ Native("write", args, r, "idle")
        /\ ret' = IF r.thrown THEN ret ELSE Returned(r)
        /\ UNCHANGED <<fdToPath, tsconfigs, history, pre, nCalls>>
        /\ UNCHANGED <<tsconfigCache, fr, compiles, reads>>

writeSyncCatchMutRethrow ==
    /\ pc = "catch"
    /\ pc' = "idle"
    /\ ret' = [kind |-> "throw", val |-> 0]
    /\ UNCHANGED <<fdToPath, tsconfigs, history, pre, nCalls>>
    /\ UNCHANGED <<tsconfigCache, osFds, disk, fr, calls, compiles, reads, nFaults>>

\* lines 187-194: the exception is logged and dropped
writeSyncCatch ==
    /\ pc = "catch"
    /\ pc' = "final"
    /\ WriteFrame
    /\ UNCHANGED <<tsconfigCache, osFds, disk, fr, calls, compiles, reads, nFaults>>

\* lines 117 and 197: the real write with the caller's arguments, outside the
\* try block; what it raises reaches the caller
writeSyncFinal(fault) ==
    LET r == nativeWriteSync(osFds, disk, fr.args, fault)
    IN  /\ pc = "final"
        /\ MayFail(fault) /\ Charge(fault)
        /\ osFds' = r.os
        /\ disk' = r.disk
        /\ calls' = Append(calls, Call("write", fr.args, r))
        /\ ret' = Returned(r)
        /\ pc' = "idle"
        /\ UNCHANGED <<fdToPath, tsconfigs, history, pre, nCalls>>
        /\ UNCHANGED <<tsconfigCache, fr, compiles, reads>>

\* ------------------------------------------------------------------------
\* The checker's calls and the specification
\* ------------------------------------------------------------------------

\* what the checker passes to fs.openSync: a path as a string, or as a Buffer
OpenArgs == { String(p) : p \in OpenPaths } \cup { Buffer(OutNested) }

\* what the checker passes to fs.writeSync after the handle: the data, a
\* string or a Buffer, and the arguments after it, none or a position
WriteArgs ==
    { <<String(<<"stub">>), <<>>>>, <<String(<<"stub">>), <<0>>>>,
      <<Buffer(<<"bytes">>), <<>>>> }

Next ==
    \/ \E a \in OpenArgs, fault \in BOOLEAN : openSync(a, fault)
    \/ \E fd \in Fds, fault \in BOOLEAN : closeSync(fd, fault)
    \/ \E fd \in Fds, a \in WriteArgs : writeSyncEnter(fd, a[1], a[2])
    \/ writeSyncExists
    \/ \E fault \in BOOLEAN : writeSyncRead(fault)
    \/ \E result \in CompilerResults : writeSyncCompile(result, FALSE)
    \/ writeSyncCompile(NoResult, TRUE)
    \/ \E fault \in BOOLEAN : writeSyncErrors(fault)
    \/ \E fault \in BOOLEAN : writeSyncMapOpen(fault)
    \/ \E fault \in BOOLEAN : writeSyncMapWrite(fault)
    \/ \E fault \in BOOLEAN : writeSyncMapClose(fault)
    \/ writeSyncCss
    \/ \E fault \in BOOLEAN : writeSyncCssMapOpen(fault)
    \/ \E fault \in BOOLEAN : writeSyncCssMapWrite(fault)
    \/ \E fault \in BOOLEAN : writeSyncCssMapClose(fault)
    \/ \E fault \in BOOLEAN : writeSyncCssOpen(fault)
    \/ \E fault \in BOOLEAN : writeSyncCssWrite(fault)
    \/ \E fault \in BOOLEAN : writeSyncCssClose(fault)
    \/ \E fault \in BOOLEAN : writeSyncModified(fault)
    \/ writeSyncCatch
    \/ writeSyncFinal(FALSE)
    \/ writeSyncFinal(TRUE)

Spec == Init /\ [][Next]_vars

\* ------------------------------------------------------------------------
\* Properties of the wrapped write
\* ------------------------------------------------------------------------

\* a wrapped write has been entered, or was the last call to end
InWrite == fr.op = "write"

\* the wrapped write has ended
WriteDone == pc = "idle" /\ fr.op = "write"

\* what the unwrapped write does to the state the call began in
Unwrapped(args) == nativeWriteSync(pre.os, pre.disk, args, FALSE)

\* call i is the real write with the caller's own arguments
IsOriginalWrite(i) == calls[i].op = "write" /\ calls[i].args = fr.args

\* the call ended as its last native call did, and left on disk what the
\* unwrapped write of args leaves there
EndedAs(c, args) ==
    /\ ret.kind = IF c.thrown THEN "throw" ELSE "return"
    /\ ret.val = c.val
    /\ IF c.thrown
       THEN disk = pre.disk /\ osFds = pre.os
       ELSE disk = Unwrapped(args).disk /\ osFds = Unwrapped(args).os

\* C1: a wrapped write whose handle is not in the table, or whose recorded
\* path does not end with '.vue.js', or whose payload is not a string, is the
\* unwrapped write: the real write is called once with the same arguments, its
\* result is the call's result, the compiler is not called and nothing else is
\* opened or written.
C1_PassThrough ==
    (/\ InWrite
     /\ ~(/\ fr.args[1] \in DOMAIN fdToPath
          /\ endsWith(fdToPath[fr.args[1]], VUEJS)
          /\ fr.args[2].type = "string"))
    => /\ compiles = <<>>
       /\ pc \in {"final", "idle"}
       /\ pc = "final" => calls = <<>>
       /\ pc = "idle" => /\ Len(calls) = 1
                         /\ IsOriginalWrite(1)
                         /\ EndedAs(calls[1], fr.args)

C1_Witness ==
    /\ WriteDone
    /\ fr.args[1] \in DOMAIN fdToPath
    /\ endsWith(fdToPath[fr.args[1]], VUEJS)
    /\ fr.args[2].type = "buffer"
    /\ ret.kind = "return"
    /\ disk[fdToPath[fr.args[1]]] = fr.args[2].val

\* C2: a wrapped write on a handle is attributed to the path of the handle's
\* latest wrapped open, as long as no close came after it: after open(P1),
\* close and a later open(P2) that returns the same handle, the placeholder
\* test and the pipeline use P2, never P1.
C2_ReusedHandle ==
    InWrite =>
        /\ fr.hasPath =>
               /\ history[fr.args[1]].path.type = "string"
               /\ ~history[fr.args[1]].closed
               /\ fr.filePath = history[fr.args[1]].path.val
        /\ (history[fr.args[1]].path.type = "string" /\ ~history[fr.args[1]].closed)
               => (fr.hasPath /\ fr.filePath = history[fr.args[1]].path.val)

C2_Witness ==
    /\ WriteDone
    /\ history[fr.args[1]].reused
    /\ ~history[fr.args[1]].closed
    /\ fr.hasPath
    /\ fr.filePath = OutNested
    /\ Len(compiles) = 1
    /\ compiles[1].filename = <<"F">> \o VUE

\* C3: when the compiler reports a diagnostic error for a textual write to a
\* placeholder handle, every native call of the wrapped write is the real
\* write with the original arguments (no style file and no map file is opened
\* or written), and the disk ends as the unwrapped write of the original
\* payload leaves it.
C3_ErrorsKeepPayload ==
    (InWrite /\ fr.result.errors > 0)
    => /\ pc \in {"errwrite", "catch", "final", "idle"}
       /\ Len(compiles) = 1
       /\ \A i \in 1..Len(calls) : IsOriginalWrite(i)
       /\ pc = "idle" => (calls # <<>> /\ EndedAs(calls[Len(calls)], fr.args))

C3_Witness ==
    /\ WriteDone
    /\ fr.result.errors > 0
    /\ fr.result.css # <<>>
    /\ ret.kind = "return"
    /\ disk[fr.filePath] = fr.args[2].val

\* C4: when the mapped source of a textual write to a placeholder handle
\* does not exist on disk, the compiler is not called, nothing but the real
\* write with the original arguments happens, and the disk ends as the
\* unwrapped write of the original payload leaves it.
C4_MissingSource ==
    (/\ InWrite
     /\ fr.vueFilePath # <<>>
     /\ fr.vueFilePath \notin DOMAIN pre.disk
     /\ fr.vueFilePath \notin DOMAIN tsconfigs)
    => /\ compiles = <<>>
       /\ pc \in {"exists", "final", "idle"}
       /\ pc # "idle" => calls = <<>>
       /\ pc = "idle" => /\ Len(calls) = 1
                         /\ IsOriginalWrite(1)
                         /\ EndedAs(calls[1], fr.args)

C4_Witness ==
    /\ WriteDone
    /\ fr.filePath = OutSibling
    /\ fr.vueFilePath \notin DOMAIN pre.disk
    /\ ret.kind = "return"
    /\ disk[fr.filePath] = fr.args[2].val

\* the compiler was called once and returned a result without errors
Compiled ==
    /\ InWrite
    /\ Len(compiles) = 1
    /\ fr.result.js.code # <<>>
    /\ fr.result.errors = 0

\* the caller's arguments with text in place of the payload
Substituted(text) ==
    <<fr.args[1], String(text)>> \o SubSeq(fr.args, 3, Len(fr.args))

\* call i is a real write on the caller's handle
OnCallersHandle(i) == calls[i].op = "write" /\ calls[i].args[1] = fr.args[1]

NoneThrown == \A i \in 1..Len(calls) : ~calls[i].thrown

\* the wrapped write ended with the real write of text in place of the payload
EndedSubstituting(text) ==
    /\ calls # <<>>
    /\ calls[Len(calls)].args = Substituted(text)
    /\ ret = Returned(calls[Len(calls)])
    /\ disk[fr.filePath] = Unwrapped(Substituted(text)).disk[fr.filePath]

\* C5: after a compilation without errors with the source-map flag false, no
\* file whose name ends with '.map' is opened or created, whatever maps the
\* compiler result carries; the caller's handle is written with the compiled
\* script text and no reference comment (or, after a failure, with the
\* original payload), and a call in which no file operation failed leaves
\* the compiled script text on disk.
C5_NoMapsWhenDisabled ==
    (Compiled /\ ~compiles[1].sourceMap)
    => /\ \A i \in 1..Len(calls) :
              /\ calls[i].op = "open" => ~endsWith(calls[i].args[1].val, MAP)
              /\ OnCallersHandle(i) =>
                     \/ calls[i].args = fr.args
                     \/ calls[i].args = Substituted(fr.result.js.code)
       /\ \A f \in DOMAIN disk \ DOMAIN pre.disk : ~endsWith(f, MAP)
       /\ (pc = "idle" /\ NoneThrown) => EndedSubstituting(fr.result.js.code)

C5_Witness ==
    /\ WriteDone
    /\ Compiled
    /\ ~compiles[1].sourceMap
    /\ fr.result.js.sourceMap.present
    /\ Len(fr.result.css) = 2
    /\ ret.kind = "return"
    /\ disk[fr.filePath] = JsCode
    /\ \A f \in DOMAIN disk : ~endsWith(f, MAP)

\* the compiled script text followed by the reference to its map
ScriptWithReference ==
    fr.result.js.code \o <<"\n//# sourceMappingURL=">> \o basename(fr.filePath) \o MAP

\* C6: after a compilation without errors with the source-map flag true and a
\* script map in the result, a call in which no file operation failed leaves
\* on disk the compiled script text followed by a reference comment naming
\* '<basename(P)>.map', and the file 'P.map' holding the JSON text of the
\* script map.
C6_MapWhenEnabled ==
    (/\ Compiled
     /\ compiles[1].sourceMap
     /\ fr.result.js.sourceMap.present
     /\ pc = "idle"
     /\ NoneThrown)
    => /\ EndedSubstituting(ScriptWithReference)
       /\ fr.filePath \o MAP \in DOMAIN disk
       /\ disk[fr.filePath \o MAP] = JSONstringify(fr.result.js.sourceMap)

C6_Witness ==
    /\ WriteDone
    /\ Compiled
    /\ compiles[1].sourceMap
    /\ fr.result.js.sourceMap.present
    /\ NoneThrown
    /\ disk[fr.filePath] = ScriptWithReference
    /\ disk[fr.filePath \o MAP] = JSONstringify(fr.result.js.sourceMap)

\* C7: a wrapped write raises only what the real write on the caller's
\* handle with the original arguments raises: whatever else fails inside the
\* call (reading the source, the compiler, writing a map or a style) is
\* caught, and the call ends as that real write ends.
C7_OnlyRealWriteRaises ==
    WriteDone =>
        /\ calls # <<>>
        /\ ret = Returned(calls[Len(calls)])
        /\ ret.kind = "throw" => IsOriginalWrite(Len(calls))

C7_Witness ==
    /\ WriteDone
    /\ ret.kind = "return"
    /\ \E i \in 1..Len(calls) : calls[i].thrown /\ calls[i].op = "open"

\* the text written for style k: its code, followed by the reference to its
\* map when maps are enabled and the style has one
StyleText(k) ==
    IF compiles[1].sourceMap /\ fr.result.css[k].sourceMap.present
    THEN fr.result.css[k].code \o <<"\n/*# sourceMappingURL=">>
             \o basename(fr.result.css[k].filename) \o MAP \o <<" */">>
    ELSE fr.result.css[k].code

\* the declared filename of style k, resolved against the directory of the
\* script output
StylePath(k) == dirname(fr.filePath) \o <<SEP>> \o fr.result.css[k].filename

\* calls i, i+1, i+2 open StylePath(k), write StyleText(k) and close
StyleWrittenAt(k, i) ==
    /\ calls[i].op = "open" /\ ~calls[i].thrown
    /\ calls[i].args[1].val = StylePath(k)
    /\ calls[i + 1].op = "write" /\ ~calls[i + 1].thrown
    /\ calls[i + 1].args = <<calls[i].val, String(StyleText(k))>>
    /\ calls[i + 2].op = "close" /\ ~calls[i + 2].thrown
    /\ calls[i + 2].args = <<calls[i].val>>

\* the real write of the substituted script has been reached
ScriptWriteReached ==
    \/ pc = "modwrite"
    \/ \E i \in 1..Len(calls) : OnCallersHandle(i) /\ calls[i].args # fr.args

\* C10: when the wrapped write gets to the real write of the compiled
\* script, every style asset of the result has been written by its own
\* open-write-close to its declared filename resolved against the directory
\* of the script output, and stays so whether that real write returns or
\* raises.
C10_StylesWritten ==
    (Compiled /\ ScriptWriteReached)
    => \A k \in 1..Len(fr.result.css) :
           /\ \E i \in 1..(Len(calls) - 2) : StyleWrittenAt(k, i)
           /\ StylePath(k) \in DOMAIN disk
           /\ disk[StylePath(k)] = StyleText(k)

C10_Witness ==
    /\ WriteDone
    /\ Compiled
    /\ Len(fr.result.css) = 2
    /\ \E i \in 1..Len(calls) :
           OnCallersHandle(i) /\ calls[i].args # fr.args /\ calls[i].thrown
    /\ \A k \in 1..2 : disk[StylePath(k)] = StyleText(k)

\* ------------------------------------------------------------------------
\* The path mapping over a range of configurations and output paths
\* ------------------------------------------------------------------------

MapperOutDirs ==
    { <<>>, <<"d">>, <<".", "/", "d", "/">>, <<"/", "p", "/", "d">>,
      <<"d", "/", "a">> }

MapperRootDirs ==
    { <<>>, <<".", "/", "s">>, <<"s", "/", "t">>, <<".", ".", "/", "r">> }

MapperSourceMaps == { "true", "false", "undefined", "\"true\"" }

NestedTsconfig == join(<<"/", "p", "/", "d">>, TSCONFIG_JSON)

\* no tsconfig.json; one in the project directory; or a second one, nearer
\* to the outputs, in /p/d
MapperTsconfigs ==
    {EmptyMap}
    \cup { [f \in {ProjectTsconfig} |-> c] :
             c \in {Garbage} \cup
                   { Options(o, r, m) : o \in MapperOutDirs, r \in MapperRootDirs,
                                        m \in MapperSourceMaps } }
    \cup { [f \in {ProjectTsconfig, NestedTsconfig} |->
              IF f = NestedTsconfig THEN c
              ELSE Options(<<"d">>, <<".", "/", "s">>, "true")] :
             c \in { Garbage, Options(<<".">>, <<".", ".", "/", "s", "2">>, "false") } }

MapperPaths ==
    { OutNested, OutSibling,
      <<"/", "p", "/", "d", "/", "F">> \o VUEJS,
      <<"/", "p", "/", "d", "/", "a", "/", "b", "/", "F">> \o VUEJS,
      <<"/", "p", "/", "F">> \o VUEJS,
      <<"/", "q", "/", "F">> \o VUEJS }

\* the state openSync(P, 'w') leaves when it is the run's first call, r
\* being what the real open returned
AfterOpen(P, r) ==
    /\ fdToPath = openSyncRecord(EmptyMap, r.val, String(P))
    /\ osFds = r.os
    /\ disk = r.disk
    /\ fr = [NoFrame EXCEPT !.op = "open", !.args = <<String(P), "w">>]
    /\ calls = <<Call("open", <<String(P), "w">>, r)>>
    /\ ret = Returned(r)
    /\ history = [f \in Fds |-> IF f = r.val THEN Opened(NeverOpened, String(P))
                                ELSE NeverOpened]

InitMapper ==
    /\ tsconfigs \in MapperTsconfigs
    /\ \E P \in MapperPaths :
           AfterOpen(P, nativeOpenSync([f \in Fds |-> ClosedFd],
                                       [p \in Sources |-> VueCode], P, FALSE))
    /\ tsconfigCache = EmptyMap
    /\ pc = "idle"
    /\ compiles = <<>>
    /\ reads = <<>>
    /\ pre = [os |-> [f \in Fds |-> ClosedFd], disk |-> [p \in Sources |-> VueCode]]
    /\ nCalls = 1
    /\ nFaults = 0

\* the checker writes to the handle it opened; the write runs up to the
\* existence test of the mapped source
NextMapper ==
    \/ \E fd \in DOMAIN fdToPath, a \in WriteArgs : writeSyncEnter(fd, a[1], a[2])
    \/ writeSyncExists

SpecMapper == InitMapper /\ [][NextMapper]_vars

\* a textual write to a placeholder handle has been mapped to a source path
Mapped == InWrite /\ fr.vueFilePath # <<>>

\* for the nearest tsconfig.json t whose settings were resolved: an output
\* path that is outDir, a separator, r and '.js' is mapped to rootDir, a
\* separator and r
RoundTripUnder(t) ==
    (/\ t # <<>>
     /\ t \in DOMAIN tsconfigCache
     /\ startsWith(fr.filePath, tsconfigCache[t].outDir \o <<SEP>>))
    => fr.vueFilePath \o JS =
           tsconfigCache[t].rootDir
               \o SubSeq(fr.filePath, Len(tsconfigCache[t].outDir) + 1, Len(fr.filePath))

\* C8: with the settings (outDir, rootDir) resolved for the output path, the
\* output path 'outDir/r.js' is mapped to exactly 'rootDir/r'.
C8_RoundTrip ==
    Mapped => RoundTripUnder(findTsConfig(fr.filePath, disk, tsconfigs))

C8_Witness ==
    /\ Mapped
    /\ fr.filePath = <<"/", "p", "/", "d", "/", "a", "/", "b", "/", "F">> \o VUEJS
    /\ ProjectTsconfig \in DOMAIN tsconfigCache
    /\ tsconfigCache[ProjectTsconfig].outDir = <<"/", "p", "/", "d">>
    /\ tsconfigCache[ProjectTsconfig].rootDir = <<"/", "p", "/", "s">>
    /\ fr.vueFilePath = <<"/", "p", "/", "s", "/", "a", "/", "b", "/", "F">> \o VUE

\* t is no tsconfig.json, or one that cannot be parsed
Unresolved(t) == t = <<>> \/ ~tsconfigs[t].parses

\* C9: when no tsconfig.json exists in any ancestor directory of the output
\* path, or the nearest one cannot be parsed, the output path is mapped to
\* itself without its last 3 characters, the '.js', in the same directory.
C9_Fallback ==
    (Mapped /\ Unresolved(findTsConfig(fr.filePath, disk, tsconfigs)))
    => /\ fr.vueFilePath \o JS = fr.filePath
       /\ Len(fr.vueFilePath) = Len(fr.filePath) - 3

C9_Witness ==
    /\ Mapped
    /\ tsconfigs = EmptyMap
    /\ fr.filePath = <<"/", "p", "/", "d", "/", "a", "/", "b", "/", "F">> \o VUEJS
    /\ fr.vueFilePath = <<"/", "p", "/", "d", "/", "a", "/", "b", "/", "F">> \o VUE

\* ------------------------------------------------------------------------
\* The substituted write
\* ------------------------------------------------------------------------

\* the replacement text the pipeline yields for the compiler's result
ReplacementText ==
    IF compiles[1].sourceMap /\ fr.result.js.sourceMap.present
    THEN ScriptWithReference
    ELSE fr.result.js.code

\* call i is a real write on the caller's handle with another payload than
\* the caller's
IsSubstitutedWrite(i) == OnCallersHandle(i) /\ calls[i].args[2] # fr.args[2]

\* C11: when the pipeline yields replacement text, the real write is called
\* on the caller's handle with that text as payload and the caller's other
\* arguments (the position) as they were, and the value that write returns is
\* the value the wrapped write returns.
C11_SubstitutedWrite ==
    Compiled =>
        /\ \A i \in 1..Len(calls) :
               IsSubstitutedWrite(i) =>
                   /\ calls[i].args[1] = fr.args[1]
                   /\ calls[i].args[2] = String(ReplacementText)
                   /\ Len(calls[i].args) = Len(fr.args)
                   /\ \A k \in 3..Len(fr.args) : calls[i].args[k] = fr.args[k]
                   /\ ~calls[i].thrown =>
                          /\ pc = "idle"
                          /\ i = Len(calls)
                          /\ ret = [kind |-> "return", val |-> calls[i].val]
        /\ (pc = "idle" /\ NoneThrown) =>
               (calls # <<>> /\ IsSubstitutedWrite(Len(calls)))

C11_Witness ==
    /\ WriteDone
    /\ Compiled
    /\ Len(fr.args) = 3
    /\ IsSubstitutedWrite(Len(calls))
    /\ calls[Len(calls)].args = <<fr.args[1], String(ScriptWithReference), fr.args[3]>>
    /\ ret = [kind |-> "return", val |-> Len(ScriptWithReference)]

\* ------------------------------------------------------------------------
\* The table of open handles
\* ------------------------------------------------------------------------

\* C12: in every state, calls whose real operation failed included, each
\* handle in the table is an open descriptor whose latest wrapped open named
\* a string path, with no wrapped close since, and the recorded path is that
\* path; a closed handle has no entry.
C12_TableInvariant ==
    \A fd \in DOMAIN fdToPath :
        /\ fd \in Fds
        /\ osFds[fd].open
        /\ osFds[fd].path = fdToPath[fd]
        /\ history[fd].path = String(fdToPath[fd])
        /\ ~history[fd].closed

C12_Witness ==
    /\ pc = "idle"
    /\ fr.op = "close"
    /\ ret.kind = "throw"
    /\ pre.os[fr.args[1]].open
    /\ history[fr.args[1]].path.type = "string"
    /\ fr.args[1] \notin DOMAIN fdToPath
    /\ fdToPath # EmptyMap

\* ------------------------------------------------------------------------
\* Failure paths of the wrapped write
\* ------------------------------------------------------------------------

\* the real writes on the caller's handle made by the wrapped write
CallerWrites == { i \in 1..Len(calls) : OnCallersHandle(i) }

\* C13: no retries: a wrapped write that has ended made exactly one real
\* write on the caller's handle; a real write that was attempted is never
\* followed by a second one on that handle in the same call.
C13_NoRetries ==
    WriteDone => Cardinality(CallerWrites) = 1

\* the substituted write raised and the original payload was written after it
C13_Witness ==
    /\ WriteDone
    /\ Compiled
    /\ Len(calls) >= 2
    /\ IsSubstitutedWrite(Len(calls) - 1)
    /\ calls[Len(calls) - 1].thrown
    /\ IsOriginalWrite(Len(calls))
    /\ ret.kind = "return"

\* ------------------------------------------------------------------------
\* Output paths outside the output directory
\* ------------------------------------------------------------------------

\* for the nearest tsconfig.json t whose settings were resolved: an output
\* path that does not lie under outDir is mapped to itself without '.js'
FallbackOutside(t) ==
    (/\ t # <<>>
     /\ t \in DOMAIN tsconfigCache
     /\ ~startsWith(fr.filePath, tsconfigCache[t].outDir \o <<SEP>>))
    => fr.vueFilePath \o JS = fr.filePath

\* C14: with a configuration resolved, an output path of which outDir is not
\* an ancestor directory, a sibling directory whose name starts with outDir's
\* name included, is mapped by the fallback: the path without its last 3
\* characters, not re-rooted under rootDir.
C14_OutsideOutDir ==
    Mapped => FallbackOutside(findTsConfig(fr.filePath, disk, tsconfigs))

\* outDir /p/d and the default rootDir /p: /p/d2/F.vue.js is mapped to
\* /d2/F.vue
C14_Witness ==
    /\ Mapped
    /\ fr.filePath = OutSibling
    /\ ProjectTsconfig \in DOMAIN tsconfigCache
    /\ tsconfigCache[ProjectTsconfig].outDir = <<"/", "p", "/", "d">>
    /\ tsconfigCache[ProjectTsconfig].rootDir = <<"/", "p">>
    /\ fr.vueFilePath = <<"/", "d", "2", "/", "F">> \o VUE

\* ------------------------------------------------------------------------
\* The cache of resolved configurations
\* ------------------------------------------------------------------------

\* the tsconfig.json files read and parsed by the step: reads starts anew
\* with each wrapped call and grows inside it
ReadInStep ==
    IF nCalls' # nCalls
    THEN { reads'[k] : k \in 1..Len(reads') }
    ELSE { reads'[k] : k \in (Len(reads) + 1)..Len(reads') }

\* no step changes or removes a cached record
CacheKept ==
    \A t \in DOMAIN tsconfigCache :
        t \in DOMAIN tsconfigCache' /\ tsconfigCache'[t] = tsconfigCache[t]

\* C15 (as claimed): a tsconfig.json is read and parsed only by the first
\* lookup that finds it: a step reads only a file that has no cached record,
\* and the file has one from then on, so that no later lookup reads it again;
\* a cached record is never changed or removed.
C15_ReadOnlyOnce ==
    [][/\ CacheKept
       /\ \A t \in ReadInStep :
              t \notin DOMAIN tsconfigCache /\ t \in DOMAIN tsconfigCache']_vars

\* C15 (amended): a tsconfig.json that can be parsed is read and parsed only
\* by the first lookup that finds it: a step reads only a file that has no
\* cached record, and a file that parses has from then on the record of its
\* settings, which later lookups return without reading; a cached record is
\* never changed or removed.  A file that cannot be parsed gets no record.
C15_ParsedOnlyOnce ==
    [][/\ CacheKept
       /\ \A t \in ReadInStep :
              /\ t \notin DOMAIN tsconfigCache
              /\ IF tsconfigs[t].parses
                 THEN /\ t \in DOMAIN tsconfigCache'
                      /\ tsconfigCache'[t] =
                             getTsConfigPathsParse(dirname(t), tsconfigs[t])
                 ELSE t \notin DOMAIN tsconfigCache']_vars

\* a path has been mapped with the record cached by an earlier call, nothing
\* being read
C15_Witness ==
    /\ Mapped
    /\ nCalls >= 3
    /\ reads = <<>>
    /\ ProjectTsconfig \in DOMAIN tsconfigCache
    /\ fr.vueFilePath = <<"/", "p", "/", "s", "/", "a", "/", "F">> \o VUE

\* ------------------------------------------------------------------------
\* The source-map flag
\* ------------------------------------------------------------------------

\* for the nearest tsconfig.json t: there is none, or it cannot be parsed, or
\* its compilerOptions.sourceMap is the boolean true
SourceMapFlagFor(t) ==
    \/ t = <<>>
    \/ ~tsconfigs[t].parses
    \/ tsconfigs[t].sourceMap = "true"

\* C16: the source-map flag passed to the compiler is true exactly when the
\* nearest tsconfig.json has compilerOptions.sourceMap literally true, or
\* when no configuration is resolved (none in the ancestry, or the one found
\* cannot be parsed); with a resolved configuration whose sourceMap is
\* absent, false or not a boolean the flag is false.
C16_SourceMapFlag ==
    (InWrite /\ compiles # <<>>)
    => compiles[1].sourceMap =
           SourceMapFlagFor(findTsConfig(fr.filePath, disk, tsconfigs))

\* sourceMap: "true", a string, counts as not enabled
C16_Witness ==
    /\ InWrite
    /\ Len(compiles) = 1
    /\ ProjectTsconfig \in DOMAIN tsconfigs
    /\ tsconfigs[ProjectTsconfig].parses
    /\ tsconfigs[ProjectTsconfig].sourceMap = "\"true\""
    /\ ~compiles[1].sourceMap

\* ------------------------------------------------------------------------
\* The wrapped write and the table
\* ------------------------------------------------------------------------

\* the descriptors the wrapped write opened for its map and style files
ArtifactFds == { calls[i].val : i \in { k \in 1..Len(calls) :
                                          calls[k].op = "open" /\ ~calls[k].thrown } }

\* C17: no step of a wrapped write changes the table: the map and style
\* files are opened, written and closed with the real operations, so their
\* descriptors get no entry, and the compiler is called at most once in a
\* wrapped write, never again for a file the write itself produces.
C17_WriteKeepsTable ==
    [][fr'.op = "write" =>
           /\ fdToPath' = fdToPath
           /\ Len(compiles') <= 1
           /\ \A i \in 1..Len(calls') :
                  (calls'[i].op = "open" /\ ~calls'[i].thrown)
                      => calls'[i].val \notin DOMAIN fdToPath']_vars

C17_Witness ==
    /\ WriteDone
    /\ Compiled
    /\ NoneThrown
    /\ Cardinality(ArtifactFds) >= 1
    /\ Len(fr.result.css) = 2
    /\ DOMAIN fdToPath = {fr.args[1]}
    /\ ArtifactFds \cap DOMAIN fdToPath = {}

\* ------------------------------------------------------------------------
\* One output file from open to close, every operation succeeding
\* ------------------------------------------------------------------------

\* the payloads and positions of the session's writes, all textual
SessionWriteArgs ==
    { a \in WriteArgs : a[1].type = "string" }
        \cup { <<String(<<"other stub">>), <<>>>> }

\* what the compiler returns for the component, the same at every write
SessionResult ==
    [errors |-> 0, js |-> [code |-> JsCode, sourceMap |-> SourceMapOf("js")],
     css |-> <<CssF, CssG>>]

\* the checker has opened the placeholder path
InitSession ==
    /\ tsconfigs \in {EmptyMap} \cup
                     { [p \in {ProjectTsconfig} |-> c] : c \in TsconfigContents }
    /\ AfterOpen(OutNested, nativeOpenSync([f \in Fds |-> ClosedFd],
                                           [p \in Sources |-> VueCode],
                                           OutNested, FALSE))
    /\ tsconfigCache = EmptyMap
    /\ pc = "idle"
    /\ compiles = <<>>
    /\ reads = <<>>
    /\ pre = [os |-> [f \in Fds |-> ClosedFd], disk |-> [p \in Sources |-> VueCode]]
    /\ nCalls = 1
    /\ nFaults = 0

\* the checker writes text to the handle, once or more, and closes it; no
\* file operation fails and the compiler reports no error
NextSession ==
    \/ \E fd \in DOMAIN fdToPath, a \in SessionWriteArgs :
           writeSyncEnter(fd, a[1], a[2])
    \/ writeSyncExists
    \/ writeSyncRead(FALSE)
    \/ writeSyncCompile(SessionResult, FALSE)
    \/ writeSyncMapOpen(FALSE)
    \/ writeSyncMapWrite(FALSE)
    \/ writeSyncMapClose(FALSE)
    \/ writeSyncCss
    \/ writeSyncCssMapOpen(FALSE)
    \/ writeSyncCssMapWrite(FALSE)
    \/ writeSyncCssMapClose(FALSE)
    \/ writeSyncCssOpen(FALSE)
    \/ writeSyncCssWrite(FALSE)
    \/ writeSyncCssClose(FALSE)
    \/ writeSyncModified(FALSE)
    \/ \E fd \in DOMAIN fdToPath : closeSync(fd, FALSE)

SpecSession == InitSession /\ [][NextSession]_vars

\* the compiled script output for the placeholder path: the compiled text,
\* and the reference to its map when maps are enabled
SessionOutput ==
    IF SourceMapFlagFor(findTsConfig(OutNested, disk, tsconfigs))
    THEN JsCode \o <<"\n//# sourceMappingURL=">> \o basename(OutNested) \o MAP
    ELSE JsCode

\* the handle was closed after at least one write
SessionClosed == pc = "idle" /\ fr.op = "close" /\ nCalls >= 3

\* C18: when the checker opens a placeholder path P, writes text to the
\* handle once or more, every compilation succeeding, and closes it, the
\* content of P is exactly the compiled script output, however many writes
\* there were and whatever their payloads.
C18_FinalContent ==
    SessionClosed => disk[OutNested] = SessionOutput

\* after two writes without a position the file holds the output twice
C18_Witness ==
    /\ SessionClosed
    /\ disk[OutNested] = SessionOutput \o SessionOutput

\* ------------------------------------------------------------------------
\* What a wrapped write that falls back leaves on disk
\* ------------------------------------------------------------------------

\* a textual write to a placeholder handle ended with the real write of the
\* caller's own payload
EndedOriginal ==
    /\ WriteDone
    /\ fr.vueFilePath # <<>>
    /\ calls # <<>>
    /\ IsOriginalWrite(Len(calls))

\* the files other than the caller's that the call created or changed
Touched ==
    { f \in DOMAIN disk \ {fr.filePath} :
          f \notin DOMAIN pre.disk \/ disk[f] # pre.disk[f] }

\* call i opened f for the pipeline
OpenedAt(i, f) ==
    calls[i].op = "open" /\ ~calls[i].thrown /\ calls[i].args[1].val = f

\* C19 (as claimed): whenever a wrapped write on a placeholder handle ends
\* by writing the original payload, for whatever reason, no script map, no
\* style and no style map has been created or modified during the call.
C19_NothingTouched ==
    EndedOriginal => Touched = {}

\* C19 (amended): whenever a wrapped write on a placeholder handle ends by
\* writing the original payload, the files created or modified besides the
\* caller's are those the pipeline opened after a compilation without errors
\* and before the step that failed; they are left as written, and when the
\* compiler was not called, raised or reported errors, nothing is opened,
\* created or modified.
C19_OnlyCompletedArtifacts ==
    EndedOriginal =>
        /\ \A f \in Touched : \E i \in 1..Len(calls) : OpenedAt(i, f)
        /\ ~Compiled => \A i \in 1..Len(calls) : calls[i].op # "open"
        /\ \A i \in 1..(Len(calls) - 1) :
               (/\ calls[i].op = "open" /\ ~calls[i].thrown
                /\ calls[i + 1].op = "write" /\ ~calls[i + 1].thrown)
               => disk[calls[i].args[1].val] = calls[i + 1].args[2].val

\* the script map was written, a later step failed, the original payload was
\* written and the map is still there
C19_Witness ==
    /\ EndedOriginal
    /\ Compiled
    /\ ret.kind = "return"
    /\ fr.filePath \o MAP \in Touched
    /\ disk[fr.filePath \o MAP] = JSONstringify(fr.result.js.sourceMap)
    /\ disk[fr.filePath] = fr.args[2].val

\* ------------------------------------------------------------------------
\* The descriptors of the pipeline
\* ------------------------------------------------------------------------

\* C20: every descriptor the pipeline opens for a script map, a style or a
\* style map is closed when the wrapped write has ended, on every path, those
\* on which a real write or a later step raised included: the descriptors
\* open after the call are those open before it.
C20_NoHandleLeak ==
    WriteDone => \A fd \in Fds : osFds[fd].open = pre.os[fd].open

\* a descriptor opened for an artifact is still open after the call, and no
\* table entry names it
C20_Witness ==
    /\ WriteDone
    /\ ret.kind = "return"
    /\ \E fd \in ArtifactFds :
           /\ osFds[fd].open
           /\ ~pre.os[fd].open
           /\ fd \notin DOMAIN fdToPath
           /\ endsWith(osFds[fd].path, MAP)

====
